---- MODULE Spec2Model ----
(***************************************************************************)
(* SeedUp: the resumable transfer orchestration core.                      *)
(*                                                                         *)
(* The pull side is src/torrent_downloader.py (save_session, load_session, *)
(* download_torrent, get_download_status, clear_session) with the command  *)
(* handlers of src/main.py that call it (handle_download, handle_status,   *)
(* handle_clear, main): specification Spec.  The push side is              *)
(* src/gdrive_uploader.py (upload_to_google_drive, upload_to_drive and     *)
(* what they call) with handle_upload: specification UpSpec.  The ETA a    *)
(* tick of the pull monitor displays is a function of the snapshot alone:  *)
(* specification EtaSpec.  What the monitor's loops do as the wall clock   *)
(* goes on (the metadata wait, the save every tenth second) is             *)
(* specification ClockSpec.                                                *)
(*                                                                         *)
(* The transfer engine (libtorrent) is an external collaborator: its       *)
(* answers (status snapshots, metadata, a refused transfer, a raising      *)
(* save_state) and the faults of the file system (open, read, write,       *)
(* remove) are inputs the actions draw with \E, and so is the wall-clock    *)
(* second a tick reads.  A session's engine state is the pair (name,       *)
(* progress percentage) the status feed reports.                           *)
(***************************************************************************)
EXTENDS Integers, Sequences, FiniteSets, TLC

(* ------------------------- bounds and inputs --------------------------- *)

\* Torrent names are 1..MaxNames; 0 stands for "no torrent" (a fresh engine).
MaxNames == 2

Names == 1..MaxNames
\* Progress percentages the status feed reports (s.progress * 100).
ProgressLevels == {0, 95}
\* Download rates (bytes/s) and peer counts the status feed reports.
Rates == {0, 50}
Peers == {0, 1}
\* Values of int(time.time()) % 10 a tick can read: a tick lasts a second of
\* sleep plus the time its own work takes, so any second can follow any other.
WallClock == {0, 9}

(* ------------------------- engine and encoding ------------------------- *)

\* lt.session(): an engine with no restored state.
Fresh == [name |-> 0, progress |-> 0]

\* The engine states a running transfer can be in.
EngineStates == [name : Names, progress : ProgressLevels]

\* One token of a bencoded byte string.
Tok(k, v) == [k |-> k, v |-> v]

\* session.save_state(): the engine's state as a bencodable entry.
save_state(ses) == [name |-> ses.name, progress |-> ses.progress]

\* session.load_state(entry): the engine state an entry restores.
load_state(entry) == [name |-> entry.name, progress |-> entry.progress]

\* lt.bencode(entry): a dictionary is framed by "d" ... "e"; the name is a
\* byte string, the progress an integer.
bencode(entry) ==
    << Tok("d", 0), Tok("s", entry.name), Tok("i", entry.progress), Tok("e", 0) >>

\* lt.bdecode(data) raises (RuntimeError) unless data is a complete dictionary.
bdecode_raises(data) ==
    ~ ( /\ Len(data) = 4
        /\ data[1].k = "d"
        /\ data[2].k = "s"
        /\ data[3].k = "i"
        /\ data[4].k = "e" )

\* lt.bdecode(data) on decodable data.
bdecode(data) == [name |-> data[2].v, progress |-> data[3].v]

(* ----------------------------- session file ---------------------------- *)

NoFile == [exists |-> FALSE, data |-> << >>]
FileOf(data) == [exists |-> TRUE, data |-> data]

\* The session file holds the valid session of engine state E.
HoldsSession(f, E) == f.exists /\ f.data = bencode(save_state(E))
\* The session file holds some valid (decodable) session.
HoldsValidSession(f) == \E E \in EngineStates : HoldsSession(f, E)

\* Faults of one save_session call: which step raises.
SaveFaults == {"none", "open", "save_state", "bencode", "write"}

\* A faulty save_session: a save that goes through never writes the closing
\* byte.
save_session_lossy(f, ses, fault, k) ==
    CASE fault = "open" -> f
      [] fault \in {"save_state", "bencode"} -> FileOf(<< >>)
      [] fault = "write" -> FileOf(SubSeq(bencode(save_state(ses)), 1, k))
      [] OTHER -> FileOf(SubSeq(bencode(save_state(ses)), 1, 3))

\* save_session: open(session_file, "wb") truncates the file, then the state
\* is serialized and written; any exception is logged and swallowed.  The
\* result is the file the call leaves.  k < 4 is the number of tokens an
\* interrupted write got out.
save_session(f, ses, fault, k) ==
    CASE fault = "open" -> f
      [] fault \in {"save_state", "bencode"} -> FileOf(<< >>)
      [] fault = "write" -> FileOf(SubSeq(bencode(save_state(ses)), 1, k))
      [] OTHER -> FileOf(bencode(save_state(ses)))

\* A faulty load_session: the corrupt file is not removed.
load_session_keep(f, readFault, removeFault) ==
    IF ~ f.exists
    THEN [raised |-> FALSE, restored |-> FALSE, ses |-> Fresh, file |-> f]
    ELSE IF readFault
    THEN [raised |-> TRUE, restored |-> FALSE, ses |-> Fresh, file |-> f]
    ELSE IF f.data = << >> \/ bdecode_raises(f.data)
    THEN [raised |-> FALSE, restored |-> FALSE, ses |-> Fresh, file |-> f]
    ELSE [raised |-> FALSE, restored |-> TRUE,
          ses |-> load_state(bdecode(f.data)), file |-> f]

\* load_session: what the call returns (ses, restored), whether it raised past
\* its caller instead, and the file it leaves.  Only RuntimeError and
\* ValueError are caught: an OSError of the read, or of os.remove inside the
\* handler, propagates.
load_session(f, readFault, removeFault) ==
    IF ~ f.exists
    THEN [raised |-> FALSE, restored |-> FALSE, ses |-> Fresh, file |-> f]
    ELSE IF readFault
    THEN [raised |-> TRUE, restored |-> FALSE, ses |-> Fresh, file |-> f]
    ELSE IF f.data = << >> \/ bdecode_raises(f.data)
    THEN IF removeFault
         THEN [raised |-> TRUE, restored |-> FALSE, ses |-> Fresh, file |-> f]
         ELSE [raised |-> FALSE, restored |-> FALSE, ses |-> Fresh, file |-> NoFile]
    ELSE [raised |-> FALSE, restored |-> TRUE,
          ses |-> load_state(bdecode(f.data)), file |-> f]

\* get_download_status: a paused session is reported iff the file exists.
get_download_status(f) == f.exists

\* A faulty clear_session: a failing os.remove is reported as success.
clear_session_silent(f, removeFault) ==
    IF f.exists
    THEN [ret |-> TRUE, file |-> IF removeFault THEN f ELSE NoFile]
    ELSE [ret |-> TRUE, file |-> f]

\* clear_session: True when the file is absent or was removed, False when
\* os.remove raised.
clear_session(f, removeFault) ==
    IF f.exists
    THEN IF removeFault
         THEN [ret |-> FALSE, file |-> f]
         ELSE [ret |-> TRUE, file |-> NoFile]
    ELSE [ret |-> TRUE, file |-> f]

\* A faulty clean-up: the session file is left in place.
remove_on_complete_skip(f, removeFault) ==
    [attempted |-> f.exists, ok |-> TRUE, file |-> f]

\* download_torrent's clean-up after completion: the file is removed if it
\* exists; a failing os.remove is logged as a warning and ignored.
remove_on_complete(f, removeFault) ==
    IF f.exists
    THEN IF removeFault
         THEN [attempted |-> TRUE, ok |-> FALSE, file |-> f]
         ELSE [attempted |-> TRUE, ok |-> TRUE, file |-> NoFile]
    ELSE [attempted |-> FALSE, ok |-> TRUE, file |-> f]

(* --------------------------- download_torrent -------------------------- *)

\* A source as download_torrent inspects it: the "magnet:" prefix, the
\* ".torrent" suffix, whether the path exists, whether its content parses as
\* a descriptor, and the torrent it names.
Sources ==
    { s \in [magnet : BOOLEAN, dotTorrent : BOOLEAN, exists : BOOLEAN,
             parses : BOOLEAN, t : Names] :
        /\ s.parses => s.exists
        /\ s.magnet => ~ s.exists /\ ~ s.dotTorrent
        /\ (s.magnet \/ (s.dotTorrent /\ s.parses)) \/ s.t = 1
        /\ (~ s.magnet /\ ~ s.dotTorrent) => (s.exists <=> s.parses) }

\* The source starts with the magnet prefix or names an existing descriptor
\* file.
NamesTransfer(s) == s.magnet \/ (s.exists /\ s.parses)

\* A faulty source branch: a source that is neither a magnet link nor a
\* ".torrent" path is taken for a magnet link.
resolve_source_lenient(s) ==
    IF s.magnet THEN "magnet"
    ELSE IF s.dotTorrent
         THEN IF ~ s.exists THEN "not_found"
              ELSE IF ~ s.parses THEN "unreadable" ELSE "torrent"
         ELSE "magnet"

\* The source branch of download_torrent: "magnet" and "torrent" go on to
\* add_torrent, the others return None.
resolve_source(s) ==
    IF s.magnet THEN "magnet"
    ELSE IF s.dotTorrent
         THEN IF ~ s.exists THEN "not_found"
              ELSE IF ~ s.parses THEN "unreadable" ELSE "torrent"
         ELSE "invalid"

\* ses.add_torrent(params): the engine now transfers torrent t; a restored
\* session of the same torrent keeps its progress.
add_torrent(ses, t) ==
    [name |-> t, progress |-> IF ses.name = t THEN ses.progress ELSE 0]

\* One status snapshot of the Transferring loop.
Snapshots == [progress : ProgressLevels, download_rate : Rates, num_peers : Peers]

\* The label a tick prints.
phase_label(resuming, s) ==
    IF resuming /\ s.progress < 95 THEN "Resuming Download"
    ELSE IF s.download_rate = 0 /\ s.num_peers = 0 THEN "Connecting to Peers"
    ELSE "Download Progress"

\* is_resuming after a tick: cleared only in the branch that prints
\* "Download Progress".
resuming_after(resuming, s) ==
    IF resuming /\ s.progress < 95 THEN resuming
    ELSE IF s.download_rate = 0 /\ s.num_peers = 0 THEN resuming
    ELSE FALSE

(* ------------------------------- main.py ------------------------------- *)

\* handle_download: the exit status and the report for what download_torrent
\* returned ("None" or "path"); no upload is requested.
handle_download(ret) ==
    IF ret = "None"
    THEN [exit |-> 1, report |-> "Download failed or was cancelled"]
    ELSE [exit |-> 0, report |-> "Download completed"]

\* main: routes to handle_download; a KeyboardInterrupt that escapes ends the
\* command with 130, any other exception with 1.
main_download(ret) ==
    IF ret = "KeyboardInterrupt"
    THEN [exit |-> 130, report |-> "Operation cancelled by user"]
    ELSE IF ret = "Exception"
    THEN [exit |-> 1, report |-> "Operation failed"]
    ELSE handle_download(ret)

\* handle_status: the line printed; the exit status is 0 either way.
handle_status(f) ==
    IF get_download_status(f)
    THEN "Found paused download session"
    ELSE "No paused download session found"

\* handle_clear: exit status and line printed for clear_session's result.
handle_clear(ok) ==
    IF ok THEN [exit |-> 0, report |-> "Download session cleared"]
    ELSE [exit |-> 1, report |-> "Failed to clear session"]

(* -------------------------- gdrive_uploader.py ------------------------- *)

\* A local tree has at most MaxNodes nodes (files and directories).
MaxNodes == 3

\* Sizes a file can have, in bytes.
FileSizes == {0, 1}

\* Parent vectors of a tree of n nodes.  Nodes are numbered in the order the
\* depth-first walk of upload_to_drive meets them: node 1 is local_path (its
\* parent is 0), and the parent of node i + 1 is node i or an ancestor of it.
RECURSIVE IsUnder(_, _, _)
\* Node j is node i or lies below it (parent is the tree's parent vector).
IsUnder(parent, j, i) ==
    IF j = i THEN TRUE
    ELSE IF j < i THEN FALSE
    ELSE IsUnder(parent, parent[j], i)

ParentVectors(n) ==
    { p \in { q \in [1..n -> 0..n] :
                 q[1] = 0 /\ \A i \in 2..n : q[i] >= 1 /\ q[i] < i } :
        \A i \in 2..n : IsUnder(p, i - 1, p[i]) }

\* The kinds the nodes of a tree can have: only a directory has children.
KindVectors(n, p) ==
    { k \in [1..n -> {"file", "dir"}] : \A i \in 2..n : k[p[i]] = "dir" }

\* The sizes the nodes can have: only a file has one.
SizeVectors(n, k) ==
    { s \in [1..n -> FileSizes] : \A i \in 1..n : k[i] = "dir" => s[i] = 0 }

\* The local trees of n nodes.
TreesOf(n) ==
    UNION { UNION { { [n |-> n, parent |-> p, kind |-> k, size |-> s] :
                        s \in SizeVectors(n, k) } :
                    k \in KindVectors(n, p) } :
            p \in ParentVectors(n) }

\* Local trees; the tree of a local_path that does not exist is one
\* "missing" node.
Trees ==
    { [n |-> 1, parent |-> << 0 >>, kind |-> << "missing" >>, size |-> << 0 >>] }
    \cup UNION { TreesOf(n) : n \in 1..MaxNodes }

FilesOf(t) == { i \in 1..t.n : t.kind[i] = "file" }

\* The first node after the subtree of node i, in walk order.
NextAfter(t, i) ==
    IF \E j \in (i + 1)..t.n : ~ IsUnder(t.parent, j, i)
    THEN CHOOSE j \in (i + 1)..t.n :
            /\ ~ IsUnder(t.parent, j, i)
            /\ \A m \in (i + 1)..(j - 1) : IsUnder(t.parent, m, i)
    ELSE t.n + 1

RECURSIVE SizeSum(_, _, _)
\* The sizes of the files numbered up to i that are not in set U, added up.
SizeSum(t, U, i) ==
    IF i = 0 THEN 0
    ELSE SizeSum(t, U, i - 1)
         + (IF t.kind[i] = "file" /\ i \notin U THEN t.size[i] ELSE 0)

\* count_items: for a single file its size (os.path.getsize is not guarded
\* there); for a directory the files os.walk lists and the sizes that could
\* be read: a file in U, whose os.path.getsize raised OSError, adds nothing.
count_items(t, U) ==
    [files |-> Cardinality(FilesOf(t)), total_size |-> SizeSum(t, U, t.n)]

\* The truth value of the progress bar in "if _progress_bar:": a tqdm bar
\* made with total=_total_size is true iff that total is positive.
bar_is_true(total) == total > 0

\* Faults of one remote existence query: it answers, it fails with HttpError,
\* or it raises an exception of another class (transport level).
QueryFaults == {"none", "HttpError", "raise"}

\* The faults a query can meet when it is made, and none when it is not.
QueriesMade(made) == IF made THEN QueryFaults ELSE {"none"}

\* file_exists: the node found, None (nothing found, or HttpError caught), or
\* the exception it lets through.
file_exists(remote_has, fault) ==
    IF fault = "raise" THEN "raise"
    ELSE IF fault = "HttpError" THEN "None"
    ELSE IF remote_has THEN "found" ELSE "None"

\* folder_exists: as file_exists, for folders.
folder_exists(remote_has, fault) ==
    IF fault = "raise" THEN "raise"
    ELSE IF fault = "HttpError" THEN "None"
    ELSE IF remote_has THEN "found" ELSE "None"

\* upload_file: with skip_existing the existence query is made again and an
\* existing node's id returned; else the upload is made, and any exception of
\* it is caught and None returned.  up is what the remote upload gives ("id"
\* or "None").
upload_file(skip_existing, remote_has, fault, up) ==
    IF skip_existing /\ file_exists(remote_has, fault) = "raise" THEN "raise"
    ELSE IF skip_existing /\ file_exists(remote_has, fault) = "found" THEN "id"
    ELSE up

\* create_folder: with skip_existing an existing folder's id is returned;
\* else the folder is created, and any exception of that is caught and None
\* returned.  made is what the remote creation gives ("id" or "None").
create_folder(skip_existing, remote_has, fault, made) ==
    IF skip_existing /\ folder_exists(remote_has, fault) = "raise" THEN "raise"
    ELSE IF skip_existing /\ folder_exists(remote_has, fault) = "found" THEN "id"
    ELSE made

\* The file branch of upload_to_drive: the list the path is appended to
\* ("skipped", "success", "failed"), or "raise" when os.path.getsize or an
\* existence query raised and nothing was appended.  The branch asks for the
\* name (the remote parent then has it or not: remote_has) and upload_file
\* asks again (remote_has2): other writers to the parent run between the two.
file_branch(skip_existing, sizeFault, remote_has, remote_has2, fault1, fault2, up) ==
    LET existing == IF skip_existing THEN file_exists(remote_has, fault1)
                    ELSE "None"
        file_id == upload_file(skip_existing, remote_has2, fault2, up)
    IN  IF sizeFault THEN "raise"
        ELSE IF existing = "raise" THEN "raise"
        ELSE IF existing = "found" THEN "skipped"
        ELSE IF file_id = "raise" THEN "raise"
        ELSE IF file_id = "id" THEN "success"
        ELSE "failed"

\* The remote operation of a file's visit that failed, if one did: the first
\* existence query, the one upload_file makes, or the upload itself.
file_remote_failure(skip_existing, sizeFault, remote_has, remote_has2, fault1, fault2, up) ==
    IF sizeFault THEN "none"
    ELSE IF skip_existing /\ fault1 # "none" THEN "query"
    ELSE IF skip_existing /\ fault2 # "none" THEN "query"
    ELSE IF upload_file(skip_existing, remote_has2, fault2, up) = "None" THEN "upload"
    ELSE "none"

\* Whether the file branch gets as far as the remote upload call
\* (files().create with the media body): the size was read, the branch's
\* query found nothing, and upload_file's own query found nothing either.
file_uploads(skip_existing, sizeFault, remote_has, remote_has2, fault1, fault2) ==
    /\ ~ sizeFault
    /\ (skip_existing => file_exists(remote_has, fault1) = "None")
    /\ (skip_existing => file_exists(remote_has2, fault2) = "None")

\* Whether create_folder gets as far as the remote creation call
\* (files().create with the folder metadata): the lookup is made only with
\* skip_existing, and only a folder it finds is used again.
folder_creates(skip_existing, remote_has, fault) ==
    ~ (skip_existing /\ folder_exists(remote_has, fault) \in {"found", "raise"})

\* A faulty validation: the path that does not exist is recorded nowhere.
missing_path_dropped(res, path) == res

\* "if not os.path.exists(local_path)": the path is appended to failed and
\* the call returns.
missing_path(res, path) == [res EXCEPT !["failed"] = Append(@, path)]

\* A faulty initialization: the counts of done work are those the call before
\* left in the shared lists.
initial_aggregate_kept(stats, old) ==
    [uploaded |-> old.uploaded, completed |-> old.completed,
     files |-> stats.files, total |-> stats.total_size]

\* "if _progress_bar is None": the aggregate the outermost call sets from its
\* scan.  old is what _uploaded_size and _file_count, default arguments that
\* live as long as the process, hold from the calls before.
initial_aggregate(stats, old) ==
    [uploaded |-> 0, completed |-> 0,
     files |-> stats.files, total |-> stats.total_size]

\* The directories whose calls return in the step that handles node i and
\* moves the walk to node nxt: directories above i whose last child's
\* subtree ends there, and i itself (self) when it is a directory that is
\* not descended into or has no child.
ExitedDirs(t, i, nxt, self) ==
    { d \in 1..t.n : /\ t.kind[d] = "dir"
                     /\ IsUnder(t.parent, i, d)
                     /\ (d # i \/ self)
                     /\ NextAfter(t, d) <= nxt }

\* "if _progress_bar and _file_count[0] >= _file_count[1]" at the end of a
\* directory's call: the bar is closed.
bar_closes(total, fc) == bar_is_true(total) /\ fc[1] >= fc[2]

\* A faulty merge: a nested directory's root_folder_id replaces that of the
\* call above it.
root_after_dir_nested(root, i, folder_id) ==
    IF folder_id = "id" THEN i ELSE root

\* results['root_folder_id'] of the outermost call after the directory
\* branch of node i got folder_id: the outermost call (node 1) stores its
\* folder; a nested call stores its folder in its own results, of which the
\* call above merges success, failed and skipped only.  A root of 0 is the
\* remote parent the job began with.
root_after_dir(root, i, folder_id) ==
    IF i = 1 /\ folder_id = "id" THEN i ELSE root

\* A faulty walk: a directory whose remote folder is missing is descended
\* into all the same.
after_dir_descend(t, i, folder_id, listFault) == i + 1

\* The node the walk goes to after the directory branch of node i: its first
\* child (or what follows the empty directory) when the remote folder is
\* there and os.listdir answered, else what follows its subtree.
after_dir(t, i, folder_id, listFault) ==
    IF folder_id = "id" /\ ~ listFault THEN i + 1 ELSE NextAfter(t, i)

\* The remote parent upload_to_google_drive hands to upload_to_drive: the
\* caller's folder id, or by default the SeedUp folder or the Drive root.
default_folder(folder_id, use_seedup_folder) ==
    IF folder_id = "None"
    THEN IF use_seedup_folder THEN "SeedUp" ELSE "root"
    ELSE folder_id

\* The remote parent of the outermost upload_to_drive call: with
\* use_seedup_folder the SeedUp folder replaces the parent_id handed in.
top_parent(parent_id, use_seedup_folder) ==
    IF use_seedup_folder THEN "SeedUp" ELSE parent_id

\* handle_upload's exit status for a returned outcome: 1 when some path
\* failed.
upload_exit(results) == IF results.failed # << >> THEN 1 ELSE 0

(* ------------------------------ ETA display ---------------------------- *)

\* Byte counts of a status snapshot are multiples of ChunkBytes, up to
\* MaxChunks of them.
ChunkBytes == 500
MaxChunks == 16

ByteCounts == { ChunkBytes * c : c \in 0..MaxChunks }
\* Download rates (bytes/s) of the snapshots the ETA is computed for.
EtaRates == {0, 1, 7, 50}

\* The snapshots a tick can read: total_done never exceeds total_wanted.
EtaSnapshots ==
    { s \in [total_wanted : ByteCounts, total_done : ByteCounts,
             download_rate : EtaRates] : s.total_done <= s.total_wanted }

\* What eta_str shows: its form ("N/A", "s", "m s", "h m") and the numbers
\* in it.
Eta(form, a, b) == [form |-> form, a |-> a, b |-> b]

\* A faulty ETA: the seconds of the "m s" form are not reduced modulo 60.
eta_str_raw_seconds(s) ==
    LET remaining == s.total_wanted - s.total_done
        rate == s.download_rate
    IN  IF ~ (rate > 0) THEN Eta("N/A", 0, 0)
        ELSE IF remaining < 60 * rate
        THEN Eta("s", remaining \div rate, 0)
        ELSE IF remaining < 3600 * rate
        THEN Eta("m s", remaining \div (60 * rate), remaining \div rate)
        ELSE Eta("h m", remaining \div (3600 * rate),
                 (remaining % (3600 * rate)) \div (60 * rate))

\* The ETA of a tick.  eta_seconds = remaining / download_rate is a float:
\* eta_seconds < 60 is remaining < 60 * rate, int(eta_seconds / 60) is
\* remaining \div (60 * rate), int(eta_seconds % 60) is what is left of
\* remaining modulo 60 * rate, in whole seconds, and so on for the hours.
eta_str(s) ==
    LET remaining == s.total_wanted - s.total_done
        rate == s.download_rate
    IN  IF ~ (rate > 0) THEN Eta("N/A", 0, 0)
        ELSE IF remaining < 60 * rate
        THEN Eta("s", remaining \div rate, 0)
        ELSE IF remaining < 3600 * rate
        THEN Eta("m s", remaining \div (60 * rate),
                 (remaining % (60 * rate)) \div rate)
        ELSE Eta("h m", remaining \div (3600 * rate),
                 (remaining % (3600 * rate)) \div (60 * rate))

(* -------------------------- the monitor's clock ------------------------ *)

\* The Transferring loop saves on ticks whose wall-clock second is a multiple
\* of SaveEvery.
SaveEvery == 10

\* From one tick to the next the wall-clock second goes on by 1 to MaxStep:
\* a tick sleeps one second and takes the time of its own work.
MaxStep == 2
TickSteps == 1..MaxStep

\* The seconds without a save are counted up to MaxUnsaved.
MaxUnsaved == 12

\* int(time.time()) % 10 == 0
save_due(second) == second % SaveEvery = 0

\* The wall-clock second, modulo SaveEvery, d seconds later.
later(second, d) == (second + d) % SaveEvery

\* The seconds since the last save (u before this tick), d seconds after a
\* tick that saved or did not.
unsaved_after(u, saved, d) ==
    LET v == (IF saved THEN 0 ELSE u) + d
    IN  IF v > MaxUnsaved THEN MaxUnsaved ELSE v

(* -------------------------------- state -------------------------------- *)

VARIABLES
    pc,           \* "idle" (no command running), "AwaitingMetadata", "Transferring"
    file,         \* the session file
    ses,          \* the engine state of the running job
    is_resuming,  \* download_torrent's is_resuming
    label,        \* the label the last tick printed ("none" before any tick)
    rateSeen,     \* some tick of this job observed download_rate > 0
    result,       \* what the last command ended with
    hist,         \* the last operation on the session file, and the one before
    source_ok,    \* the source of the last pull job named a transfer
    upc,          \* the upload job: "idle", "walking" (the tree), "done"
    tree,         \* the local tree the upload command is given
    job,          \* the uploader's configuration and the top remote parent
    total_size,   \* _total_size: the bytes the scan counted
    uploaded_size,\* _uploaded_size[0]
    file_count,   \* _file_count: << current, total >>
    results,      \* the outcome lists, in walk order
    pos,          \* the node whose upload_to_drive call comes next
    visited,      \* the nodes upload_to_drive was called for
    uncreated,    \* the directories create_folder returned None for
    local_fault,  \* an os.path.getsize or os.listdir of the walk raised
    last,         \* the last upload_to_drive call and what it met
    upResult,     \* how the upload command ended
    bar_closed,   \* _progress_bar.close() has been called in this job
    root_folder_id, \* results['root_folder_id'] of the outermost call
    snap,         \* the snapshot the last ETA was computed for
    eta,          \* the ETA displayed for it
    now,          \* the wall-clock second, modulo SaveEvery
    unsaved       \* whole seconds of Transferring since the last save

dlvars == << pc, file, ses, is_resuming, label, rateSeen, result, hist, source_ok >>
upvars == << upc, tree, job, total_size, uploaded_size, file_count, results, pos,
             visited, uncreated, local_fault, last, upResult, bar_closed,
             root_folder_id >>
etavars == << snap, eta >>
clockvars == << now, unsaved >>
vars == << dlvars, upvars, etavars, clockvars >>

NoResult ==
    [cmd |-> "none", cause |-> "none", ret |-> "-", exit |-> 0, report |-> "-",
     from |-> "-", saved |-> FALSE]

\* What a session file holds, as an observer of the file tells it: nothing
\* ("absent"), no byte ("empty"), the session of an engine state ("valid"),
\* or bytes that are no session ("undecodable").
KindOf(f) ==
    IF ~ f.exists THEN "absent"
    ELSE IF f.data = << >> THEN "empty"
    ELSE IF HoldsValidSession(f) THEN "valid"
    ELSE "undecodable"

\* The engine state whose session the file holds (Fresh when it holds none).
StateOf(f) ==
    IF HoldsValidSession(f)
    THEN CHOOSE E \in EngineStates : HoldsSession(f, E)
    ELSE Fresh

NoHist ==
    [op |-> "none", ok |-> TRUE, raised |-> FALSE, restored |-> FALSE,
     preKind |-> "absent", preState |-> Fresh, arg |-> Fresh, out |-> Fresh,
     again |-> FALSE]

\* The record of one operation on the session file: the operation, whether it
\* went through, what load_session did, what the file held before (the state
\* only for a save), the engine state handed to save_session (kept by a load
\* that follows a successful save), the handle load_session returned, and
\* whether the operation before it was a successful save_session (for a load)
\* or a successful clear_session (for a clear).
LogOp(op, ok, raised, restored, pre, arg, out) ==
    LET again == /\ hist.ok
                 /\ \/ op = "load" /\ hist.op = "save"
                    \/ op = "clear" /\ hist.op = "clear"
    IN  [op |-> op, ok |-> ok, raised |-> raised, restored |-> restored,
         preKind |-> KindOf(pre),
         preState |-> IF op = "save" THEN StateOf(pre) ELSE Fresh,
         arg |-> IF op = "save" \/ (op = "load" /\ again) THEN arg ELSE Fresh,
         out |-> out, again |-> again]

\* What a caller observes of an ended pull job.
Obs(r) == [ret |-> r.ret, exit |-> r.exit, report |-> r.report]

\* The result of a pull job that ended with download_torrent's outcome ret.
DownloadResult(cause, ret, from, saved) ==
    [cmd |-> "download", cause |-> cause, ret |-> ret,
     exit |-> main_download(ret).exit, report |-> main_download(ret).report,
     from |-> from, saved |-> saved]

(* ---------------------------- upload: state ---------------------------- *)

MissingTree ==
    [n |-> 1, parent |-> << 0 >>, kind |-> << "missing" >>, size |-> << 0 >>]

NoJob ==
    [skip_existing |-> FALSE, use_seedup_folder |-> FALSE, folder_id |-> "None",
     parent_id |-> "None", stale |-> FALSE]

NoResults == [success |-> << >>, failed |-> << >>, skipped |-> << >>]

NoVisit ==
    [node |-> 0, kind |-> "none", class |-> "none", remote_has |-> FALSE,
     remote_failure |-> "none", local_failure |-> FALSE, called |-> FALSE]

NoUpResult == [exit |-> 0, summary |-> FALSE, cause |-> "none"]

\* The upload job's own variables before the job starts.
UploadUnstarted ==
    /\ upc = "idle"
    /\ job = NoJob
    /\ total_size = 0
    /\ uploaded_size = 0
    /\ file_count = << 0, 0 >>
    /\ results = NoResults
    /\ pos = 0
    /\ visited = {}
    /\ uncreated = {}
    /\ local_fault = FALSE
    /\ last = NoVisit
    /\ upResult = NoUpResult
    /\ bar_closed = FALSE
    /\ root_folder_id = 0

\* No upload command is given.
UploadAtRest == UploadUnstarted /\ tree = MissingTree

\* No snapshot has been shown an ETA for.
EtaAtRest ==
    /\ snap = [total_wanted |-> 0, total_done |-> 0, download_rate |-> 0]
    /\ eta = Eta("none", 0, 0)

\* The clock is not looked at.
ClockAtRest ==
    /\ now = 0
    /\ unsaved = 0

\* Session files a command may find when the program starts: none, an empty
\* one, one of foreign bytes, or a valid one.
InitialFiles ==
    {NoFile, FileOf(<< >>), FileOf(<< Tok("x", 0) >>)}
    \cup {FileOf(bencode(save_state(E))) : E \in EngineStates}

Init ==
    /\ pc = "idle"
    /\ file \in InitialFiles
    /\ ses = Fresh
    /\ is_resuming = FALSE
    /\ label = "none"
    /\ rateSeen = FALSE
    /\ result = NoResult
    /\ hist = NoHist
    /\ source_ok = TRUE
    /\ UploadAtRest
    /\ EtaAtRest
    /\ ClockAtRest

\* The job's own variables once download_torrent has returned or raised.
JobOver ==
    /\ pc' = "idle"
    /\ ses' = Fresh
    /\ is_resuming' = FALSE
    /\ label' = "none"
    /\ rateSeen' = FALSE

(* ------------------------------- actions ------------------------------- *)

\* The faults one save_session call can meet, and how far an interrupted
\* write gets.
SaveInputs ==
    {[fault |-> f, k |-> 0] : f \in SaveFaults \ {"write"}}
    \cup {[fault |-> "write", k |-> k] : k \in 0..3}

\* "download": download_torrent from its entry to the metadata wait.  With
\* auto_resume the session is loaded; an exception load_session lets through
\* ends the command in main; an unusable source or a refused add_torrent
\* returns None.
StartDownload ==
    /\ pc = "idle"
    /\ \E src \in Sources, auto_resume \in BOOLEAN :
       \E addFault \in IF resolve_source(src) \in {"magnet", "torrent"}
                      THEN BOOLEAN ELSE {FALSE} :
       \E readFault \in IF auto_resume /\ file.exists THEN BOOLEAN ELSE {FALSE} :
       \E removeFault \in IF auto_resume /\ file.exists /\ ~ readFault
                         THEN BOOLEAN ELSE {FALSE} :
        LET L == IF auto_resume
                 THEN load_session(file, readFault, removeFault)
                 ELSE [raised |-> FALSE, restored |-> FALSE, ses |-> Fresh,
                       file |-> file]
            kind == resolve_source(src)
            failed == kind \notin {"magnet", "torrent"} \/ addFault
        IN  /\ file' = L.file
            /\ hist' = IF auto_resume
                       THEN LogOp("load", ~ L.raised, L.raised, L.restored,
                                  file, hist.arg, L.ses)
                       ELSE hist
            /\ source_ok' = NamesTransfer(src)
            /\ IF L.raised \/ failed
               THEN /\ JobOver
                    /\ result' = IF L.raised
                                 THEN DownloadResult("error", "Exception", "start", FALSE)
                                 ELSE DownloadResult("failed", "None", "start", FALSE)
               ELSE /\ pc' = "AwaitingMetadata"
                    /\ ses' = add_torrent(L.ses, src.t)
                    /\ is_resuming' = (auto_resume /\ file.exists)
                    /\ result' = NoResult
                    /\ UNCHANGED << label, rateSeen >>
    /\ UNCHANGED << upvars, etavars, clockvars >>

\* One poll of the metadata wait: without metadata the monitor sleeps a second
\* and polls again; with it the monitor enters the Transferring loop.
PollMetadata ==
    /\ pc = "AwaitingMetadata"
    /\ \E has_metadata \in BOOLEAN :
        pc' = IF has_metadata THEN "Transferring" ELSE pc
    /\ UNCHANGED << file, ses, is_resuming, label, rateSeen, result, hist >>
    /\ UNCHANGED << source_ok, upvars, etavars, clockvars >>

\* KeyboardInterrupt during the metadata wait: the loop is outside
\* download_torrent's try, so the interrupt reaches main.
CancelAwaitingMetadata ==
    /\ pc = "AwaitingMetadata"
    /\ JobOver
    /\ result' = DownloadResult("cancelled", "KeyboardInterrupt",
                                "AwaitingMetadata", FALSE)
    /\ UNCHANGED << file, hist >>
    /\ UNCHANGED << source_ok, upvars, etavars, clockvars >>

\* One tick of the Transferring loop while the engine is not seeding: the
\* snapshot is read, the label chosen, the session saved when the wall-clock
\* second is a multiple of 10, and the loop sleeps.
Tick ==
    /\ pc = "Transferring"
    /\ \E s \in Snapshots, clock \in WallClock :
       \E in \in IF clock % 10 = 0 THEN SaveInputs ELSE {[fault |-> "none", k |-> 0]} :
        LET cur == [name |-> ses.name, progress |-> s.progress]
            save == (clock % 10 = 0)
        IN  /\ label' = phase_label(is_resuming, s)
            /\ is_resuming' = resuming_after(is_resuming, s)
            /\ rateSeen' = (rateSeen \/ s.download_rate > 0)
            /\ ses' = cur
            /\ file' = IF save THEN save_session(file, cur, in.fault, in.k) ELSE file
            /\ hist' = IF save
                       THEN LogOp("save", in.fault = "none", FALSE, FALSE, file,
                                  cur, Fresh)
                       ELSE hist
    /\ UNCHANGED << pc, result >>
    /\ UNCHANGED << source_ok, upvars, etavars, clockvars >>

\* handle.status() raises on a tick of the Transferring loop: the loop's try
\* catches KeyboardInterrupt only, so the exception leaves download_torrent
\* and handle_download and ends the command in main; no save is made.
TickReadError ==
    /\ pc = "Transferring"
    /\ JobOver
    /\ result' = DownloadResult("error", "Exception", "Transferring", FALSE)
    /\ UNCHANGED << file, hist >>
    /\ UNCHANGED << source_ok, upvars, etavars, clockvars >>

\* The engine reports seeding: the loop ends, the session file is cleaned up
\* and the content path returned.
Complete ==
    /\ pc = "Transferring"
    /\ \E removeFault \in IF file.exists THEN BOOLEAN ELSE {FALSE} :
        LET R == remove_on_complete(file, removeFault)
        IN  /\ file' = R.file
            /\ hist' = LogOp("remove", R.ok, FALSE, FALSE, file, hist.arg, Fresh)
    /\ JobOver
    /\ result' = DownloadResult("completed", "path", "Transferring", FALSE)
    /\ UNCHANGED << source_ok, upvars, etavars, clockvars >>

\* KeyboardInterrupt inside the Transferring loop: one last save_session,
\* then None is returned.
CancelTransferring ==
    /\ pc = "Transferring"
    /\ \E in \in SaveInputs :
        /\ file' = save_session(file, ses, in.fault, in.k)
        /\ hist' = LogOp("save", in.fault = "none", FALSE, FALSE, file, ses, Fresh)
    /\ JobOver
    /\ result' = DownloadResult("cancelled", "None", "Transferring", TRUE)
    /\ UNCHANGED << source_ok, upvars, etavars, clockvars >>

\* "status": reports whether a session file exists.
Status ==
    /\ pc = "idle"
    /\ result' = [cmd |-> "status", cause |-> "none", ret |-> "-", exit |-> 0,
                  report |-> handle_status(file), from |-> "-", saved |-> FALSE]
    /\ UNCHANGED << pc, file, ses, is_resuming, label, rateSeen, hist >>
    /\ UNCHANGED << source_ok, upvars, etavars, clockvars >>

\* "clear": clear_session and the line handle_clear prints for its result.
Clear ==
    /\ pc = "idle"
    /\ \E removeFault \in IF file.exists THEN BOOLEAN ELSE {FALSE} :
        LET C == clear_session(file, removeFault)
        IN  /\ file' = C.file
            /\ hist' = LogOp("clear", C.ret, FALSE, FALSE, file, hist.arg, Fresh)
            /\ result' = [cmd |-> "clear", cause |-> "none", ret |-> "-",
                          exit |-> handle_clear(C.ret).exit,
                          report |-> handle_clear(C.ret).report,
                          from |-> "-", saved |-> FALSE]
    /\ UNCHANGED << pc, ses, is_resuming, label, rateSeen >>
    /\ UNCHANGED << source_ok, upvars, etavars, clockvars >>

Next ==
    \/ StartDownload
    \/ PollMetadata
    \/ CancelAwaitingMetadata
    \/ Tick
    \/ TickReadError
    \/ Complete
    \/ CancelTransferring
    \/ Status
    \/ Clear

Spec == Init /\ [][Next]_vars

TypeOK ==
    /\ pc \in {"idle", "AwaitingMetadata", "Transferring"}
    /\ file.exists \in BOOLEAN
    /\ ses.name \in 0..MaxNames
    /\ ses.progress \in ProgressLevels
    /\ is_resuming \in BOOLEAN
    /\ source_ok \in BOOLEAN

(* --------------------------- upload: actions --------------------------- *)

\* No pull command is given.
DownloadAtRest ==
    /\ pc = "idle"
    /\ file = NoFile
    /\ ses = Fresh
    /\ is_resuming = FALSE
    /\ label = "none"
    /\ rateSeen = FALSE
    /\ result = NoResult
    /\ hist = NoHist
    /\ source_ok = TRUE

UpInit ==
    /\ DownloadAtRest
    /\ EtaAtRest
    /\ ClockAtRest
    /\ UploadAtRest

\* The number of times path x is in list xs.
RECURSIVE Count(_, _)
Count(xs, x) ==
    IF xs = << >> THEN 0
    ELSE (IF Head(xs) = x THEN 1 ELSE 0) + Count(Tail(xs), x)

\* results[list].append(path)
Appended(res, list, path) == [res EXCEPT ![list] = Append(@, path)]

\* The upload job ends without an outcome: handle_upload returns 1 before it
\* calls the uploader, or catches what the uploader raised.
EndsWithoutOutcome(cause) ==
    /\ upc' = "done"
    /\ upResult' = [exit |-> 1, summary |-> FALSE, cause |-> cause]

\* An exception leaves the upload_to_drive call of node i: the call of the
\* parent directory catches it in the loop over its children, appends its own
\* path to failed and returns, its remaining children unvisited; the
\* outermost call has no such parent and the exception reaches handle_upload.
Unwind(i) ==
    IF tree.parent[i] = 0
    THEN /\ EndsWithoutOutcome("raised")
         /\ UNCHANGED << results, pos, bar_closed >>
    ELSE /\ results' = Appended(results, "failed", tree.parent[i])
         /\ pos' = NextAfter(tree, tree.parent[i])
         /\ bar_closed' =
                (bar_closed \/ bar_closes(total_size, file_count))
         /\ UNCHANGED << upc, upResult >>

\* The bar after the step that handles node i and moves the walk to nxt,
\* with the counts fc: each directory call that returns makes the check.
ClosedAfter(i, nxt, self, fc) ==
    bar_closed \/ (ExitedDirs(tree, i, nxt, self) # {} /\ bar_closes(total_size, fc))

\* The process goes on after an upload job: the outcome is dropped, and what
\* the job left in _uploaded_size and _file_count, the default arguments of
\* upload_to_drive, stays for the next call.
NextJob ==
    /\ upc = "done"
    /\ upc' = "idle"
    /\ tree' = MissingTree
    /\ job' = NoJob
    /\ results' = NoResults
    /\ pos' = 0
    /\ visited' = {}
    /\ uncreated' = {}
    /\ local_fault' = FALSE
    /\ last' = NoVisit
    /\ upResult' = NoUpResult
    /\ bar_closed' = FALSE
    /\ root_folder_id' = 0
    /\ UNCHANGED << total_size, uploaded_size, file_count >>
    /\ UNCHANGED << dlvars, etavars, clockvars >>

\* An upload job begins, the first of the process or one more.  "upload"
\* (handle_upload) checks the path; the pull command's --upload and a caller
\* of the library do not (checked).  upload_to_google_drive builds the
\* uploader (authentication, SeedUp folder) and picks the remote parent, and
\* the outermost upload_to_drive call scans the tree and sets the aggregate,
\* unless the path does not exist.  U are the files whose size the scan could
\* not read.  total_size stays that of the last job that set the aggregate.
StartUpload ==
    /\ upc = "idle"
    /\ \E t \in Trees, checked \in BOOLEAN, skip_existing \in BOOLEAN,
          use_seedup_folder \in BOOLEAN, folder_id \in {"None", "F"} :
       \E initFault \in IF t.kind[1] = "missing" /\ checked THEN {"none"}
                       ELSE IF use_seedup_folder
                       THEN {"none", "not_colab", "seedup_folder"}
                       ELSE {"none", "not_colab"} :
       \E rootSizeFault \in IF t.kind[1] = "file" /\ initFault = "none"
                           THEN BOOLEAN ELSE {FALSE} :
       \E U \in IF t.kind[1] = "dir" /\ initFault = "none"
               THEN SUBSET FilesOf(t) ELSE {{}} :
        LET stats == count_items(t, U)
            old == [uploaded |-> uploaded_size, completed |-> file_count[1]]
            agg == initial_aggregate(stats, old)
            missing == t.kind[1] = "missing"
            ends == (missing /\ checked) \/ initFault # "none" \/ rootSizeFault
            handed == default_folder(folder_id, use_seedup_folder)
        IN  /\ tree' = t
            /\ job' = [skip_existing |-> skip_existing,
                       use_seedup_folder |-> use_seedup_folder,
                       folder_id |-> folder_id,
                       parent_id |->
                           IF ends THEN "None"
                           ELSE IF missing THEN handed
                           ELSE top_parent(handed, use_seedup_folder),
                       stale |-> (uploaded_size > 0 \/ file_count[1] > 0)]
            /\ IF ends
               THEN /\ EndsWithoutOutcome(
                           IF missing THEN "no_path"
                           ELSE IF initFault # "none" THEN "init" ELSE "raised")
                    /\ pos' = 0
                    /\ UNCHANGED << total_size, uploaded_size, file_count >>
               ELSE /\ upc' = "walking"
                    /\ pos' = 1
                    /\ UNCHANGED upResult
                    /\ IF missing
                       THEN UNCHANGED << total_size, uploaded_size, file_count >>
                       ELSE /\ total_size' = agg.total
                            /\ uploaded_size' = agg.uploaded
                            /\ file_count' = << agg.completed, agg.files >>
    /\ UNCHANGED << results, visited, uncreated, local_fault, last, bar_closed,
                    root_folder_id >>
    /\ UNCHANGED << dlvars, etavars, clockvars >>

\* The upload_to_drive call of a path that does not exist: the path the
\* outermost call is given, or a child that os.listdir named and that is gone
\* when its call begins.  The path is appended to failed and the call
\* returns; what lies below it is never listed.
VisitMissing ==
    /\ upc = "walking"
    /\ pos <= tree.n
    /\ (pos = 1 => tree.kind[1] = "missing")
    /\ last' = [node |-> pos, kind |-> "missing", class |-> "missing",
                remote_has |-> FALSE, remote_failure |-> "none",
                local_failure |-> TRUE, called |-> FALSE]
    /\ local_fault' = TRUE
    /\ results' = missing_path(results, pos)
    /\ pos' = NextAfter(tree, pos)
    /\ bar_closed' = ClosedAfter(pos, NextAfter(tree, pos), FALSE, file_count)
    /\ visited' = visited \cup {pos}
    /\ UNCHANGED << upc, upResult, tree, job, total_size, uploaded_size, file_count,
                    uncreated, root_folder_id >>
    /\ UNCHANGED << dlvars, etavars, clockvars >>

\* The upload_to_drive call of a file: the size is read, the existence query
\* made, the file skipped or uploaded, its path appended to one list and the
\* aggregate moved on.  A remote call that is not reached meets no fault: the
\* second query is made, and the parent looked at again, only when the first
\* found nothing, and the upload answers only when it is called.
VisitFile ==
    /\ upc = "walking"
    /\ pos <= tree.n
    /\ tree.kind[pos] = "file"
    /\ \E sizeFault \in BOOLEAN, remote_has \in BOOLEAN :
       \E fault1 \in QueriesMade(job.skip_existing /\ ~ sizeFault) :
       \E remote_has2 \in IF job.skip_existing
                              /\ file_uploads(job.skip_existing, sizeFault,
                                              remote_has, FALSE, fault1, "none")
                           THEN BOOLEAN ELSE {remote_has} :
       \E fault2 \in QueriesMade(job.skip_existing
                                  /\ file_uploads(job.skip_existing, sizeFault,
                                                  remote_has, FALSE, fault1, "none")) :
       \E up \in IF file_uploads(job.skip_existing, sizeFault, remote_has,
                                 remote_has2, fault1, fault2)
                 THEN {"id", "None"} ELSE {"id"} :
        LET class == file_branch(job.skip_existing, sizeFault, remote_has,
                                 remote_has2, fault1, fault2, up)
            counted == IF bar_is_true(total_size)
                       THEN << file_count[1] + 1, file_count[2] >>
                       ELSE file_count
        IN  /\ last' = [node |-> pos, kind |-> "file", class |-> class,
                        remote_has |-> remote_has,
                        remote_failure |->
                            file_remote_failure(job.skip_existing, sizeFault,
                                                remote_has, remote_has2,
                                                fault1, fault2, up),
                        local_failure |-> sizeFault,
                        called |-> file_uploads(job.skip_existing, sizeFault,
                                                remote_has, remote_has2,
                                                fault1, fault2)]
            /\ local_fault' = (local_fault \/ sizeFault)
            /\ IF class = "raise"
               THEN /\ Unwind(pos)
                    /\ UNCHANGED << uploaded_size, file_count >>
               ELSE /\ results' = Appended(results, class, pos)
                    /\ pos' = pos + 1
                    /\ IF bar_is_true(total_size)
                       THEN uploaded_size' = uploaded_size + tree.size[pos]
                       ELSE UNCHANGED uploaded_size
                    /\ file_count' = counted
                    /\ bar_closed' = ClosedAfter(pos, pos + 1, FALSE, counted)
                    /\ UNCHANGED << upc, upResult >>
    /\ visited' = visited \cup {pos}
    /\ UNCHANGED << tree, job, total_size, uncreated, root_folder_id >>
    /\ UNCHANGED << dlvars, etavars, clockvars >>

\* The upload_to_drive call of a directory, up to its first child: the remote
\* folder is looked up or created; without it, or when os.listdir raises, the
\* directory's path is appended to failed and no child is visited.
VisitDir ==
    /\ upc = "walking"
    /\ pos <= tree.n
    /\ tree.kind[pos] = "dir"
    /\ \E remote_has \in BOOLEAN, fault \in QueryFaults, made \in {"id", "None"} :
       \E listFault \in IF create_folder(job.skip_existing, remote_has, fault, made) = "id"
                       THEN BOOLEAN ELSE {FALSE} :
        LET folder_id == create_folder(job.skip_existing, remote_has, fault, made)
        IN  /\ last' = [node |-> pos, kind |-> "dir",
                        class |-> IF folder_id = "raise" THEN "raise"
                                  ELSE IF folder_id = "None" \/ listFault THEN "failed"
                                  ELSE "entered",
                        remote_has |-> remote_has,
                        remote_failure |->
                            IF job.skip_existing /\ fault # "none" THEN "query"
                            ELSE IF folder_id = "None" THEN "create" ELSE "none",
                        local_failure |-> listFault,
                        called |-> folder_creates(job.skip_existing, remote_has,
                                                  fault)]
            /\ local_fault' = (local_fault \/ listFault)
            /\ uncreated' = IF folder_id = "None" THEN uncreated \cup {pos}
                            ELSE uncreated
            /\ IF folder_id = "raise"
               THEN /\ Unwind(pos)
                    /\ UNCHANGED root_folder_id
               ELSE /\ results' = IF folder_id = "None" \/ listFault
                                  THEN Appended(results, "failed", pos)
                                  ELSE results
                    /\ pos' = after_dir(tree, pos, folder_id, listFault)
                    /\ root_folder_id' = root_after_dir(root_folder_id, pos, folder_id)
                    /\ bar_closed' =
                          ClosedAfter(pos, after_dir(tree, pos, folder_id, listFault),
                                      TRUE, file_count)
                    /\ UNCHANGED << upc, upResult >>
    /\ visited' = visited \cup {pos}
    /\ UNCHANGED << tree, job, total_size, uploaded_size, file_count >>
    /\ UNCHANGED << dlvars, etavars, clockvars >>

\* The outermost upload_to_drive call returns: upload_to_google_drive prints
\* the summary and the command turns the outcome into the exit status.
FinishUpload ==
    /\ upc = "walking"
    /\ pos > tree.n
    /\ upc' = "done"
    /\ upResult' = [exit |-> upload_exit(results), summary |-> TRUE,
                    cause |-> "returned"]
    /\ UNCHANGED << tree, job, total_size, uploaded_size, file_count, results, pos,
                    visited, uncreated, local_fault, last, bar_closed,
                    root_folder_id >>
    /\ UNCHANGED << dlvars, etavars, clockvars >>

UpNext ==
    \/ StartUpload
    \/ VisitMissing
    \/ VisitFile
    \/ VisitDir
    \/ FinishUpload
    \/ NextJob

UpSpec == UpInit /\ [][UpNext]_vars

(* ---------------------------- ETA: actions ----------------------------- *)

EtaInit ==
    /\ DownloadAtRest
    /\ UploadAtRest
    /\ EtaAtRest
    /\ ClockAtRest

\* A tick of the Transferring loop reads a snapshot and computes its ETA.
ShowEta ==
    /\ \E s \in EtaSnapshots :
        /\ snap' = s
        /\ eta' = eta_str(s)
    /\ UNCHANGED << dlvars, upvars, clockvars >>

EtaNext == ShowEta

EtaSpec == EtaInit /\ [][EtaNext]_vars

(* --------------------------- clock: actions ---------------------------- *)

\* A pull job that has added its torrent at some second of the wall clock.
ClockInit ==
    /\ pc = "AwaitingMetadata"
    /\ file = NoFile
    /\ ses = Fresh
    /\ is_resuming = FALSE
    /\ label = "none"
    /\ rateSeen = FALSE
    /\ result = NoResult
    /\ hist = NoHist
    /\ source_ok = TRUE
    /\ UploadAtRest
    /\ EtaAtRest
    /\ now \in 0..(SaveEvery - 1)
    /\ unsaved = 0

\* What the clocked loops leave alone.
ClockFrame ==
    UNCHANGED << file, ses, is_resuming, label, rateSeen, result, hist, source_ok,
                 upvars, etavars >>

\* One round of "while not handle.status().has_metadata: time.sleep(1)": with
\* metadata the loop is left for the Transferring loop, without it the
\* monitor sleeps a second and asks again.  Nothing else ends the loop.
WaitForMetadata ==
    /\ pc = "AwaitingMetadata"
    /\ \E has_metadata \in BOOLEAN, d \in TickSteps :
        /\ pc' = IF has_metadata THEN "Transferring" ELSE pc
        /\ now' = IF has_metadata THEN now ELSE later(now, d)
    /\ unsaved' = 0
    /\ ClockFrame

\* One tick of the Transferring loop: the session is saved when the second
\* read is a multiple of 10, then the loop sleeps a second.
ClockTick ==
    /\ pc = "Transferring"
    /\ \E d \in TickSteps :
        /\ now' = later(now, d)
        /\ unsaved' = unsaved_after(unsaved, save_due(now), d)
    /\ pc' = pc
    /\ ClockFrame

\* The engine reports seeding: the loop and the job end.
ClockComplete ==
    /\ pc = "Transferring"
    /\ pc' = "idle"
    /\ UNCHANGED clockvars
    /\ ClockFrame

\* KeyboardInterrupt in either loop ends the job.
ClockCancel ==
    /\ pc \in {"AwaitingMetadata", "Transferring"}
    /\ pc' = "idle"
    /\ UNCHANGED clockvars
    /\ ClockFrame

ClockNext ==
    \/ WaitForMetadata
    \/ ClockTick
    \/ ClockComplete
    \/ ClockCancel

\* The monitor runs as long as its job does.
ClockSpec == ClockInit /\ [][ClockNext]_vars /\ WF_vars(ClockNext)

(* ------------------------------- claims -------------------------------- *)

\* What load_session makes of the session file as it is now, when neither the
\* read nor a removal faults.
LoadNow == load_session(file, FALSE, FALSE)

\* C1: a save_session that fails while the file holds a valid session S_old
\* leaves S_old in the file, so that a following load_session restores S_old.
C1_FailedSaveKeepsOldSession ==
    (hist.op = "save" /\ ~ hist.ok /\ hist.preKind = "valid")
        => /\ HoldsSession(file, hist.preState)
           /\ LoadNow.restored
           /\ LoadNow.ses = hist.preState

\* C2: load_session always returns a handle and never lets an exception reach
\* its caller, whatever the state of the session file and whichever step
\* (read, decode, apply, delete) fails.
C2_LoadNeverRaises ==
    hist.op = "load" => ~ hist.raised

C4_CancelLeavesLoadableSession ==
    (result.cause = "cancelled" /\ result.from = "Transferring")
        => /\ result.ret = "None"
           /\ hist.op = "save"
           /\ file.exists
           /\ LoadNow.restored
           /\ LoadNow.ses = hist.arg

\* C5: no cancelled pull job exits without a final save of the session,
\* whatever state the monitor was in, AwaitingMetadata included.
C5_CancelAlwaysSaves ==
    result.cause = "cancelled" => (result.saved /\ hist.op = "save")

\* What a caller observes of a failed pull job (invalid source, missing or
\* unreadable descriptor, add_torrent refused).
FailedJobObs == {Obs(DownloadResult("failed", "None", "start", FALSE))}

\* C6: a pull job ended by cancellation never shows its caller the return
\* value, exit status and report that a failed pull job shows.
C6_CancelDistinctFromFailure ==
    /\ result.cause = "failed" => Obs(result) \in FailedJobObs
    /\ result.cause = "cancelled" => Obs(result) \notin FailedJobObs

C8_NoResumingAfterRate ==
    [][ (pc = "Transferring" /\ pc' = "Transferring" /\ rateSeen)
            => label' # "Resuming Download" ]_vars

\* C9: clear_session on an absent file reports success and changes nothing; a
\* successful clear_session leaves the file absent; and a clear_session that
\* follows a successful one reports success again and leaves the file absent.
C9_ClearIdempotent ==
    (hist.op = "clear" /\ result.cmd = "clear")
        => /\ hist.preKind = "absent" => (hist.ok /\ ~ file.exists)
           /\ hist.ok => (~ file.exists /\ result.exit = 0)
           /\ hist.again => (hist.preKind = "absent" /\ hist.ok /\ ~ file.exists)

C9_Witness ==
    /\ hist.op = "clear"
    /\ result.cmd = "clear"
    /\ hist.again
    /\ hist.ok
    /\ result.exit = 0
    /\ ~ file.exists

OutcomeReturned == upc = "done" /\ upResult.cause = "returned"

\* The number of entries of the three outcome lists that are path x.
Listed(x) ==
    Count(results.success, x) + Count(results.failed, x) + Count(results.skipped, x)

\* C11: for a tree uploaded with no structural failure, when the outermost
\* upload_to_drive call returns, completedFiles = totalFiles and the three
\* outcome lists together have totalFiles entries, whatever mix of uploaded,
\* skipped and failed files occurred.
C11_AggregateComplete ==
    (OutcomeReturned /\ uncreated = {} /\ ~ local_fault)
        => /\ file_count[1] = file_count[2]
           /\ Len(results.success) + Len(results.failed) + Len(results.skipped)
                = file_count[2]

\* C12: at every point of an upload job after the scan has set the aggregate,
\* completedFiles <= totalFiles and uploadedBytes <= totalBytes, also when a
\* file's size could not be read by the scan but is read at upload time.
C12_AggregateBounded ==
    upc # "idle"
        => /\ file_count[1] <= file_count[2]
           /\ uploaded_size <= total_size

\* C13: in the outcome the outermost upload_to_drive call returns, every file
\* that was visited is in exactly one of success, failed, skipped, once.
C13_EachLeafListedOnce ==
    OutcomeReturned
        => \A i \in visited : tree.kind[i] = "file" => Listed(i) = 1

\* C14: with skip_existing, a file whose name a remote node under the target
\* parent has is classified skipped, never failed or succeeded.
C14_ExistingNameSkipped ==
    (last.kind = "file" /\ job.skip_existing /\ last.remote_has
        /\ ~ last.local_failure)
        => last.class = "skipped"

\* C15: a remote operation on a node that fails, by an error value or by a
\* raised exception, is recorded as a failure of that node and unwinds
\* nothing: no call is left by its exception and the job is not aborted.
C15_RemoteFailureStaysLocal ==
    /\ (last.class = "raise" => last.local_failure)
    /\ upResult.cause = "raised" => (last.local_failure \/ last.node = 0)
    /\ (last.kind = "file" /\ last.remote_failure # "none")
            => (last.class = "failed" /\ Count(results.failed, last.node) = 1)

\* C16: a directory whose remote folder could not be created is in failed
\* exactly once and in no other list; no node below it is visited, and none
\* is in any list.
C16_UncreatedFolderFailsSubtree ==
    \A d \in uncreated :
        /\ Count(results.failed, d) = 1
        /\ Listed(d) = 1
        /\ \A j \in 1..tree.n :
              (j # d /\ IsUnder(tree.parent, j, d))
                  => (j \notin visited /\ Listed(j) = 0)

C16_Witness ==
    /\ OutcomeReturned
    /\ tree.n = 3
    /\ tree.kind[3] = "file"
    /\ tree.parent[3] = 2
    /\ uncreated = {2}
    /\ visited = {1, 2}
    /\ results.failed = << 2 >>

\* C17: an upload job of an existing path ends without the summary only when
\* an environment or initialization error occurred; every other job, also
\* one in which a remote call raises, prints the summary.
C17_SummaryUnlessInitFails ==
    (upc = "done" /\ upResult.cause \notin {"init", "no_path"})
        => upResult.summary

\* C18: a folder id the caller supplies is the remote parent of the top-level
\* node, for every uploader configuration; the SeedUp folder is the parent
\* only when no folder id is supplied.
C18_CallerFolderIsParent ==
    upc = "walking"
        => /\ job.folder_id # "None" => job.parent_id = job.folder_id
           /\ job.parent_id = "SeedUp" => job.folder_id = "None"

\* The whole seconds of a snapshot's ETA, (total_wanted - total_done) /
\* download_rate truncated (0 when the rate is 0).
EtaSeconds(s) ==
    IF s.download_rate > 0
    THEN (s.total_wanted - s.total_done) \div s.download_rate
    ELSE 0

\* C19: with download_rate > 0 the ETA is (total_wanted - total_done) /
\* download_rate seconds, truncated, shown as Ns below 60 s, Mm Ss below one
\* hour, Hh Mm otherwise; with download_rate = 0 it is shown as unknown; and
\* wanted 1000, done 500, rate 50 shows 10s.
C19_EtaFormula ==
    eta.form # "none"
        => LET T == EtaSeconds(snap)
           IN  /\ snap.download_rate = 0 => eta = Eta("N/A", 0, 0)
               /\ (snap.download_rate > 0 /\ T < 60) => eta = Eta("s", T, 0)
               /\ (snap.download_rate > 0 /\ T >= 60 /\ T < 3600)
                      => eta = Eta("m s", T \div 60, T % 60)
               /\ (snap.download_rate > 0 /\ T >= 3600)
                      => eta = Eta("h m", T \div 3600, (T % 3600) \div 60)
               /\ (snap.total_wanted = 1000 /\ snap.total_done = 500
                      /\ snap.download_rate = 50) => eta = Eta("s", 10, 0)

C19_Witness ==
    /\ snap = [total_wanted |-> 1000, total_done |-> 500, download_rate |-> 50]
    /\ eta = Eta("s", 10, 0)

\* C20: a source that neither starts with the magnet prefix nor names an
\* existing descriptor file starts no transfer: the monitor never enters
\* AwaitingMetadata or Transferring for it, no torrent is added to the
\* engine, and download_torrent gives no content path: it returns None,
\* unless load_session raised before the source was looked at.
C20_UnusableSourceFails ==
    /\ pc # "idle" => source_ok
    /\ (result.cmd = "download" /\ ~ source_ok)
          => /\ pc = "idle"
             /\ ses = Fresh
             /\ result.from = "start"
             /\ result.ret # "path"
             /\ result.cause \in {"failed", "error"}
             /\ result.cause = "failed" => result.ret = "None"
             /\ result.cause = "error" => (hist.op = "load" /\ hist.raised)

C20_Witness ==
    /\ result.cmd = "download"
    /\ ~ source_ok
    /\ result.cause = "failed"
    /\ result.ret = "None"
    /\ pc = "idle"

\* The step is an upload_to_drive call that took the branch of a path that
\* does not exist.
MissingCall == visited' # visited /\ last'.class = "missing"

\* C21: an upload_to_drive call on a path that does not exist, outermost or
\* recursive, returns with that path as its only failed entry, leaves the
\* aggregate (uploadedBytes, completedFiles, totalFiles, totalBytes) as it
\* was and makes no remote call.
C21_MissingPathFrame ==
    [][MissingCall
          => /\ last'.node = pos
             /\ results' = [results EXCEPT !.failed = Append(@, pos)]
             /\ ~ last'.called
             /\ uploaded_size' = uploaded_size
             /\ file_count' = file_count
             /\ total_size' = total_size]_vars

C21_Witness ==
    /\ upc = "walking"
    /\ last.class = "missing"
    /\ last.node = 3
    /\ visited = {1, 2, 3}
    /\ file_count = << 1, 2 >>
    /\ results.failed = << 3 >>

\* C22: an error raised while the engine status is read on a tick of the
\* Transferring loop does not end the pull job: a job leaves Transferring only
\* by completion or by cancellation.
C22_ReadErrorIsRetried ==
    (result.cmd = "download" /\ result.from = "Transferring")
        => result.cause \in {"completed", "cancelled"}

\* C23: the wait in AwaitingMetadata is bounded: a monitor that is waiting
\* for metadata eventually leaves AwaitingMetadata, also when the engine
\* never reports metadata.
C23_MetadataWaitBounded ==
    (pc = "AwaitingMetadata") ~> (pc # "AwaitingMetadata")

\* C29: while the monitor is in Transferring no 10 consecutive seconds pass
\* without a save of the session, for every tick spacing of at least one
\* second.
C29_SavedEveryTenSeconds ==
    pc = "Transferring" => unsaved <= SaveEvery

\* The step is an upload_to_drive call that put a file into one of the three
\* lists.
LeafCall ==
    /\ visited' # visited
    /\ last'.kind = "file"
    /\ last'.class \in {"success", "skipped", "failed"}

\* C24: every leaf visited in a job whose aggregate was set, uploaded, skipped
\* or failed, of whatever size, moves the aggregate on exactly once:
\* completedFiles by 1 and uploadedBytes by the file's size.
C24_EachLeafCountedOnce ==
    [][LeafCall
          => /\ file_count' = << file_count[1] + 1, file_count[2] >>
             /\ uploaded_size' = uploaded_size + tree.size[pos]]_vars

\* C25: a leaf is skipped, with no upload call, when deduplication is on and
\* the existence query finds its name; in every other case the remote upload
\* call is made, also when the remote parent changes between the query and
\* the upload.
C25_UploadedUnlessFound ==
    (/\ last.kind = "file"
     /\ last.class \in {"success", "skipped", "failed"}
     /\ last.remote_failure # "query")
        => IF job.skip_existing /\ last.remote_has
           THEN last.class = "skipped" /\ ~ last.called
           ELSE last.called

\* C26: the progress bar is closed as soon as completedFiles >= totalFiles
\* and never before: for every tree uploaded without structural failure it
\* has been closed when the outermost upload_to_drive call returns.
C26_BarClosedOnReturn ==
    /\ bar_closed => file_count[1] >= file_count[2]
    /\ (/\ OutcomeReturned
        /\ uncreated = {}
        /\ ~ local_fault
        /\ \A i \in FilesOf(tree) : Listed(i) = 1)
           => bar_closed

\* The remote folder of the outermost directory was obtained.
TopFolderObtained ==
    /\ 1 \in visited
    /\ tree.kind[1] = "dir"
    /\ 1 \notin uncreated
    /\ ~ (last.node = 1 /\ last.class = "raise")

\* C27: a nested directory call's root id overwrites that of the call above
\* it: the outcome of the outermost call has the folder id of the last nested
\* directory entered, not that of the outermost directory.
C27_NestedFolderIsRoot ==
    (OutcomeReturned /\ last.kind = "dir" /\ last.class = "entered" /\ last.node > 1)
        => root_folder_id = last.node

\* C27, as the code has it: the root id of the outermost call's outcome is the
\* folder of the outermost directory once that is obtained, and the remote
\* parent the job began with before and otherwise; no nested call changes it.
C27_OutermostFolderIsRoot ==
    root_folder_id = IF TopFolderObtained THEN 1 ELSE 0

C27_Witness ==
    /\ OutcomeReturned
    /\ last.kind = "dir"
    /\ last.class = "entered"
    /\ last.node > 1
    /\ root_folder_id = 1

\* C28: the directory case is get-or-create by name and parent for every
\* configuration: when the remote parent has a folder of the name, that
\* folder is used and no folder is created.
C28_ExistingFolderReused ==
    (last.kind = "dir" /\ last.remote_has /\ last.remote_failure # "query")
        => ~ last.called

\* C30: an outermost upload_to_drive call that sets the aggregate sets it
\* afresh (uploadedBytes = 0, completedFiles = 0, the totals those of its own
\* scan), whatever the jobs before left; after that the totals stay and no
\* recursive call takes the counts of done work back.
C30_FreshAggregatePerJob ==
    [][(upc' = "walking" /\ tree'.kind[1] # "missing")
          => IF upc = "idle"
             THEN /\ uploaded_size' = 0
                  /\ file_count' = << 0, Cardinality(FilesOf(tree')) >>
                  /\ total_size' <= SizeSum(tree', {}, tree'.n)
             ELSE /\ file_count'[2] = file_count[2]
                  /\ total_size' = total_size
                  /\ file_count'[1] >= file_count[1]
                  /\ uploaded_size' >= uploaded_size]_vars

C30_Witness ==
    /\ upc = "walking"
    /\ job.stale
    /\ tree.kind[1] = "dir"
    /\ Cardinality(visited) >= 2
    /\ file_count[1] = 0

\* C31: a pull job prints the "Resuming" label only if its engine handle was
\* restored from a session file.  Until the job's first save the last
\* operation on the session file is the job's own load_session (a job that
\* loads nothing has is_resuming false and never prints the label), and
\* that load restored a session.
C31_ResumingOnlyIfRestored ==
    (pc = "Transferring" /\ label = "Resuming Download" /\ hist.op = "load")
        => hist.restored

====
